---- MODULE Spec2Model ----
(***************************************************************************)
(* Model of store/postgres/src/detail.rs (graph-node): the queries that    *)
(* back the index node API.                                                *)
(*                                                                         *)
(*   block                      validates one (hash, number) pair          *)
(*   try_from                   maps one Detail row to a status::Info      *)
(*   deployments_for_subgraph   lists the deployments of a subgraph name   *)
(*   deployment_statuses        loads and maps rows of the detail view     *)
(*   subgraph_version           resolves (name, use_current) to a          *)
(*                              deployment                                 *)
(*                                                                         *)
(* Option<T> is a sequence of length 0 (None) or 1 (Some(x)).  A Vec<u8>   *)
(* is a sequence of bytes.  Arbitrary-precision numbers are sequences of   *)
(* decimal digits, most significant first, so that values around 2^64 are  *)
(* represented exactly.                                                    *)
(***************************************************************************)
EXTENDS Integers, Sequences, FiniteSets, TLC

VARIABLES
    subgraph,                    \* table subgraphs.subgraph: a set of rows
    subgraph_version_table,      \* table subgraphs.subgraph_version: its rows, in
                                 \* the order the store delivers them
    subgraph_deployment_detail,  \* view subgraphs.subgraph_deployment_detail: its
                                 \* rows, in the order the store delivers them
    call,                        \* the last call made and its arguments
    result                       \* what that call returned

vars == <<subgraph, subgraph_version_table, subgraph_deployment_detail, call, result>>

tables == <<subgraph, subgraph_version_table, subgraph_deployment_detail>>

-----------------------------------------------------------------------------
(* Bounds of the model                                                     *)

\* scales of the sampled decimals range over -MaxScale..MaxScale
MaxScale == 1
\* bytes of the sampled hashes range over 0..MaxByte
MaxByte == 1
\* creation timestamps of version rows range over 1..MaxCreatedAt
MaxCreatedAt == 2

-----------------------------------------------------------------------------
(* Option<T>                                                               *)

None == <<>>

Some(x) == <<x>>

IsSome(o) == Len(o) = 1

IsNone(o) == Len(o) = 0

Unwrap(o) == o[1]

-----------------------------------------------------------------------------
(* Numbers: BigInt magnitudes as digit sequences, BigDecimal as            *)
(* (sign, digits, scale) with value = sign * digits * 10^(-scale)          *)

RECURSIVE Normalize(_)
\* a magnitude without leading zeros; <<>> is zero
Normalize(ds) ==
    IF ds = <<>> THEN <<>>
    ELSE IF Head(ds) = 0 THEN Normalize(Tail(ds))
    ELSE ds

\* ds with k zero digits appended (multiplication by 10^k)
AppendZeros(ds, k) == ds \o [i \in 1..k |-> 0]

\* ds without its last k digits (truncating division by 10^k)
DropLast(ds, k) == IF k >= Len(ds) THEN <<>> ELSE SubSeq(ds, 1, Len(ds) - k)

RECURSIVE LexLeq(_, _)
\* a <= b for digit sequences of the same length
LexLeq(a, b) ==
    IF a = <<>> THEN TRUE
    ELSE IF Head(a) < Head(b) THEN TRUE
    ELSE IF Head(a) > Head(b) THEN FALSE
    ELSE LexLeq(Tail(a), Tail(b))

\* a <= b for normalized magnitudes
MagLeq(a, b) ==
    \/ Len(a) < Len(b)
    \/ Len(a) = Len(b) /\ LexLeq(a, b)

\* u64::MAX = 2^64 - 1 = 18446744073709551615
U64MaxDigits == <<1,8,4,4,6,7,4,4,0,7,3,7,0,9,5,5,1,6,1,5>>

\* 2^64
U64MaxPlus1Digits == <<1,8,4,4,6,7,4,4,0,7,3,7,0,9,5,5,1,6,1,6>>

\* BigDecimal { int_val: BigInt { sign, digits }, scale }
BigDecimal(sign, digits, scale) ==
    [sign |-> IF Normalize(digits) = <<>> THEN "NoSign" ELSE sign,
     digits |-> Normalize(digits),
     scale |-> scale]

\* BigDecimal::with_scale(0).int_val: the integer part, truncated towards zero
WithScale0(d) ==
    IF d.scale > 0 THEN Normalize(DropLast(d.digits, d.scale))
    ELSE AppendZeros(d.digits, 0 - d.scale)

\* BigInt::to_u64 on a non-negative magnitude
BigIntToU64(mag) == IF MagLeq(mag, U64MaxDigits) THEN Some(mag) ELSE None

\* <BigDecimal as ToPrimitive>::to_u64, as called at detail.rs:88
to_u64(d) ==
    CASE d.sign = "Minus"  -> None
      [] d.sign = "NoSign" -> Some(<<>>)
      [] OTHER             -> BigIntToU64(WithScale0(d))

-----------------------------------------------------------------------------
(* Hashes                                                                  *)

\* size of an H256 in bytes
H256Bytes == 32

\* H256::from_slice: asserts the length of the slice, then copies it
from_slice(bytes) ==
    IF Len(bytes) # H256Bytes THEN [panic |-> TRUE, h256 |-> <<>>]
    ELSE [panic |-> FALSE, h256 |-> [i \in 1..H256Bytes |-> bytes[i]]]

-----------------------------------------------------------------------------
(* Results                                                                 *)

Ok(v) == [tag |-> "Ok", value |-> v]

ConstraintViolation(what, id, name, hash, number) ==
    [tag |-> "Err", kind |-> "ConstraintViolation", what |-> what,
     id |-> id, name |-> name, hash |-> hash, number |-> number]

\* the error of SubgraphHealth::from_str, converted by `?`
HealthParseError(raw) ==
    [tag |-> "Err", kind |-> "Unknown", what |-> "health",
     id |-> raw, name |-> "", hash |-> None, number |-> None]

\* a failed read of the database, converted by `?`
DatabaseError ==
    [tag |-> "Err", kind |-> "DatabaseError", what |-> "load",
     id |-> "", name |-> "", hash |-> None, number |-> None]

\* the call unwinds instead of returning
Panic == [tag |-> "Panic"]

IsOk(r) == r.tag = "Ok"

IsErr(r) == r.tag = "Err"

IsPanic(r) == r.tag = "Panic"

-----------------------------------------------------------------------------
(* fn block, nested in try_from                                            *)

\* status::EthereumBlock::new(hash, number)
EthereumBlock(hash, number) == [hash |-> hash, number |-> number]

block(id, name, hash, number) ==
    IF IsSome(hash) /\ IsSome(number) THEN
        LET h == from_slice(Unwrap(hash))
            n == to_u64(Unwrap(number))
        IN  IF h.panic THEN Panic
            ELSE IF IsNone(n)
                 THEN ConstraintViolation("not_u64", id, name, None, number)
            ELSE Ok(Some(EthereumBlock(h.h256, Unwrap(n))))
    ELSE IF IsNone(hash) /\ IsNone(number) THEN Ok(None)
    ELSE ConstraintViolation("hash_number", id, name, hash, number)

-----------------------------------------------------------------------------
(* impl TryFrom<Detail> for status::Info                                   *)

\* <SubgraphHealth as FromStr>::from_str
from_str(s) ==
    CASE s = "healthy"   -> Ok("Healthy")
      [] s = "unhealthy" -> Ok("Unhealthy")
      [] s = "failed"    -> Ok("Failed")
      [] OTHER           -> HealthParseError(s)

\* struct Detail, one row of the view
Detail(id, health, synced, fatal_error, non_fatal_errors, earliest, latest, head, network, node_id) ==
    [vid |-> 1,
     id |-> id,
     manifest |-> id,
     failed |-> (health = "failed"),
     health |-> health,
     synced |-> synced,
     fatal_error |-> fatal_error,
     non_fatal_errors |-> non_fatal_errors,
     earliest_ethereum_block_hash |-> earliest.hash,
     earliest_ethereum_block_number |-> earliest.number,
     latest_ethereum_block_hash |-> latest.hash,
     latest_ethereum_block_number |-> latest.number,
     entity_count |-> BigDecimal("Plus", <<7>>, 0),
     graft_base |-> None,
     graft_block_hash |-> None,
     graft_block_number |-> None,
     ethereum_head_block_hash |-> head.hash,
     ethereum_head_block_number |-> head.number,
     network |-> network,
     node_id |-> node_id]

\* status::ChainInfo
ChainInfo(network, chain_head_block, earliest_block, latest_block) ==
    [network |-> network,
     chain_head_block |-> chain_head_block,
     earliest_block |-> earliest_block,
     latest_block |-> latest_block]

\* status::Info
Info(subgraph_id, synced, health, chain, node) ==
    [subgraph |-> subgraph_id,
     synced |-> synced,
     health |-> health,
     fatal_error |-> None,
     non_fatal_errors |-> <<>>,
     chains |-> <<chain>>,
     node |-> node]

\* try_from copying the row's errors into the status and taking the earliest
\* block for the latest one
try_from_copying(detail) ==
    LET chain_head_block == block(detail.id, "ethereum_head_block",
                                  detail.ethereum_head_block_hash,
                                  detail.ethereum_head_block_number)
        earliest_block == block(detail.id, "earliest_ethereum_block",
                                detail.earliest_ethereum_block_hash,
                                detail.earliest_ethereum_block_number)
        health == from_str(detail.health)
    IN  IF ~IsOk(chain_head_block) THEN chain_head_block
        ELSE IF ~IsOk(earliest_block) THEN earliest_block
        ELSE IF ~IsOk(health) THEN health
        ELSE Ok([Info(detail.id, detail.synced, health.value,
                      ChainInfo(detail.network, chain_head_block.value,
                                earliest_block.value, earliest_block.value),
                      detail.node_id)
                   EXCEPT !.fatal_error = detail.fatal_error,
                          !.non_fatal_errors = detail.non_fatal_errors])

try_from(detail) ==
    LET chain_head_block == block(detail.id, "ethereum_head_block",
                                  detail.ethereum_head_block_hash,
                                  detail.ethereum_head_block_number)
        earliest_block == block(detail.id, "earliest_ethereum_block",
                                detail.earliest_ethereum_block_hash,
                                detail.earliest_ethereum_block_number)
        latest_block == block(detail.id, "latest_ethereum_block",
                              detail.latest_ethereum_block_hash,
                              detail.latest_ethereum_block_number)
        health == from_str(detail.health)
    IN  IF ~IsOk(chain_head_block) THEN chain_head_block
        ELSE IF ~IsOk(earliest_block) THEN earliest_block
        ELSE IF ~IsOk(latest_block) THEN latest_block
        ELSE IF ~IsOk(health) THEN health
        ELSE Ok(Info(detail.id, detail.synced, health.value,
                     ChainInfo(detail.network, chain_head_block.value,
                               earliest_block.value, latest_block.value),
                     detail.node_id))

-----------------------------------------------------------------------------
(* Sampled inputs                                                          *)

\* a Vec<u8> of n bytes, all equal to b
ConstBytes(n, b) == [i \in 1..n |-> b]

\* a Vec<u8> of n bytes 1, 2, ..., n
RampBytes(n) == [i \in 1..n |-> i]

HashLens == {0, H256Bytes - 1, H256Bytes, H256Bytes + 1}

SampleBytes ==
    {ConstBytes(n, b) : n \in HashLens, b \in 0..MaxByte} \cup {RampBytes(H256Bytes)}

OptBytes == {None} \cup {Some(h) : h \in SampleBytes}

Mantissas ==
    {<<1>>, <<1, 5>>, <<2, 0>>, U64MaxDigits, U64MaxPlus1Digits, U64MaxDigits \o <<9>>}

SampleDecimals ==
    {BigDecimal(sg, m, sc) :
        sg \in {"Plus", "Minus"}, m \in Mantissas \cup {<<>>}, sc \in (0 - MaxScale)..MaxScale}

OptDecimals == {None} \cup {Some(d) : d \in SampleDecimals}

DeploymentIds == {"Qm1", "Qm2"}

BlockNames == {"ethereum_head_block", "earliest_ethereum_block", "latest_ethereum_block"}

Pair(hash, number) == [hash |-> hash, number |-> number]

NoPointer == Pair(None, None)

GoodPointer == Pair(Some(ConstBytes(H256Bytes, MaxByte)), Some(BigDecimal("Plus", <<1>>, 0)))

MaxPointer == Pair(Some(RampBytes(H256Bytes)), Some(BigDecimal("Plus", U64MaxDigits, 0)))

HashOnly == Pair(Some(ConstBytes(H256Bytes, 0)), None)

NumberOnly == Pair(None, Some(BigDecimal("Plus", <<2, 0>>, 0)))

TooBig == Pair(Some(ConstBytes(H256Bytes, 0)), Some(BigDecimal("Plus", U64MaxPlus1Digits, 0)))

Negative == Pair(Some(ConstBytes(H256Bytes, 0)), Some(BigDecimal("Minus", <<1>>, 0)))

ShortHash == Pair(Some(ConstBytes(H256Bytes - 1, 0)), Some(BigDecimal("Plus", <<1>>, 0)))

Fractional == Pair(Some(ConstBytes(H256Bytes, 0)), Some(BigDecimal("Plus", <<1, 5>>, 1)))

RowPairs ==
    {NoPointer, GoodPointer, MaxPointer, HashOnly, NumberOnly, TooBig, Negative,
     ShortHash, Fractional}

Healths == {"healthy", "unhealthy", "failed", "Healthy"}

Networks == {"mainnet"}

OptNodes == {None, Some("node_1")}

OptFatal == {None, Some("boom")}

NonFatals == {<<>>, <<"warn">>}

\* the rows the mapper is applied to
SampleDetails ==
    {Detail(id, h, sy, fe, nfe, e, l, hd, nw, nd) :
        id \in {"Qm1"}, h \in Healths, sy \in BOOLEAN, fe \in OptFatal,
        nfe \in {<<"warn">>}, e \in RowPairs, l \in RowPairs, hd \in RowPairs,
        nw \in Networks, nd \in OptNodes}

-----------------------------------------------------------------------------
(* Specification of the validator: block applied to sampled pairs.  The    *)
(* initial state holds the arguments of the pending call; the step makes   *)
(* the call.                                                               *)

NoCall == [op |-> "none"]

\* no call has returned yet
NoResult == [tag |-> "Pending"]

EmptyTables ==
    /\ subgraph = {}
    /\ subgraph_version_table = <<>>
    /\ subgraph_deployment_detail = <<>>

InitBlock ==
    /\ EmptyTables
    /\ \E id \in DeploymentIds, name \in BlockNames, hash \in OptBytes, number \in OptDecimals :
           call = [op |-> "block", id |-> id, name |-> name, hash |-> hash, number |-> number]
    /\ result = NoResult

BlockStep ==
    /\ call.op = "block"
    /\ result = NoResult
    /\ result' = block(call.id, call.name, call.hash, call.number)
    /\ UNCHANGED <<tables, call>>

NextBlock == BlockStep

SpecBlock == InitBlock /\ [][NextBlock]_vars

-----------------------------------------------------------------------------
(* Specification of the mapper: try_from applied to sampled rows           *)

InitMap ==
    /\ EmptyTables
    /\ \E detail \in SampleDetails : call = [op |-> "try_from", detail |-> detail]
    /\ result = NoResult

TryFromStep ==
    /\ call.op = "try_from"
    /\ result = NoResult
    /\ result' = try_from(call.detail)
    /\ UNCHANGED <<tables, call>>

NextMap == TryFromStep

SpecMap == InitMap /\ [][NextMap]_vars

-----------------------------------------------------------------------------
(* Reading values of decimals, for the properties below                    *)

\* d has no non-zero digit after the decimal point
IsIntegerValued(d) ==
    \/ d.sign = "NoSign"
    \/ d.scale <= 0
    \/ /\ Len(d.digits) > d.scale
       /\ \A i \in (Len(d.digits) - d.scale + 1)..Len(d.digits) : d.digits[i] = 0

\* the magnitude of the integer part of d
IntegerPart(d) ==
    IF d.scale > 0 THEN Normalize(DropLast(d.digits, d.scale))
    ELSE Normalize(AppendZeros(d.digits, 0 - d.scale))

\* 0 <= d <= 2^64 - 1
InU64Range(d) ==
    /\ d.sign # "Minus"
    /\ \/ ~MagLeq(U64MaxDigits, IntegerPart(d))
       \/ IntegerPart(d) = U64MaxDigits /\ IsIntegerValued(d)

\* the decimal d and the u64 n (a magnitude) are the same number:
\* BigDecimal::from(n) = d
DecimalEqualsU64(d, n) ==
    /\ d.sign # "Minus"
    /\ IsIntegerValued(d)
    /\ IntegerPart(d) = n

Returned == result # NoResult

IsConstraintViolation(r) == IsErr(r) /\ r.kind = "ConstraintViolation"

BothPresent(hash, number) == IsSome(hash) /\ IsSome(number)

BothAbsent(hash, number) == IsNone(hash) /\ IsNone(number)

\* the contract of block on one call c with result r
BlockContract(c, r) ==
    /\ BothPresent(c.hash, c.number)
       /\ IsIntegerValued(Unwrap(c.number)) /\ InU64Range(Unwrap(c.number))
          => /\ IsOk(r) /\ IsSome(r.value)
             /\ Unwrap(r.value).hash = Unwrap(c.hash)
             /\ DecimalEqualsU64(Unwrap(c.number), Unwrap(r.value).number)
    /\ BothAbsent(c.hash, c.number) => r = Ok(None)
    /\ ~BothPresent(c.hash, c.number) /\ ~BothAbsent(c.hash, c.number)
          => IsConstraintViolation(r)
    /\ IsOk(r) \/ IsConstraintViolation(r)
    /\ \A id \in DeploymentIds, name \in BlockNames :
          block(id, name, c.hash, c.number).tag = r.tag

\* C1: for every id, field name and (hash, number) pair, block returns
\* Ok(Some(pointer)) with the given hash and number when both are present and
\* the number fits a u64, Ok(None) when both are absent, Err(ConstraintViolation)
\* when exactly one is present; no other outcome occurs and the outcome depends
\* only on the pair.
C1_BlockContract ==
    call.op = "block" /\ Returned => BlockContract(call, result)

\* The contract of C1 does hold for the pairs whose hash, when present, is
\* H256Bytes long.
BlockContractOnH256 ==
    call.op = "block" /\ Returned
        /\ (IsSome(call.hash) => Len(Unwrap(call.hash)) = H256Bytes)
        => BlockContract(call, result)

\* C2: with hash and number both present (here: and the hash H256Bytes long),
\* every number outside 0..=2^64-1 fails with ConstraintViolation, and every
\* accepted number is given back exactly by the round trip decimal -> u64 ->
\* decimal.
C2_LosslessU64 ==
    call.op = "block" /\ Returned /\ BothPresent(call.hash, call.number)
        /\ Len(Unwrap(call.hash)) = H256Bytes
        => /\ ~InU64Range(Unwrap(call.number)) => IsConstraintViolation(result)
           /\ IsOk(result) =>
                 DecimalEqualsU64(Unwrap(call.number), Unwrap(result.value).number)

\* What the conversion does guarantee: a negative number, or one whose integer
\* part exceeds u64::MAX, is refused, and an accepted number is its integer part.
TruncatingU64 ==
    call.op = "block" /\ Returned /\ BothPresent(call.hash, call.number)
        /\ Len(Unwrap(call.hash)) = H256Bytes
        => LET d == Unwrap(call.number)
           IN  /\ (d.sign = "Minus" \/ ~MagLeq(IntegerPart(d), U64MaxDigits))
                     => IsConstraintViolation(result)
               /\ IsOk(result) => Unwrap(result.value).number = IntegerPart(d)

-----------------------------------------------------------------------------
(* Properties of the mapper                                                *)

\* the four checks of try_from on a row, in the order the code makes them
Checks(detail) ==
    <<block(detail.id, "ethereum_head_block",
            detail.ethereum_head_block_hash, detail.ethereum_head_block_number),
      block(detail.id, "earliest_ethereum_block",
            detail.earliest_ethereum_block_hash, detail.earliest_ethereum_block_number),
      block(detail.id, "latest_ethereum_block",
            detail.latest_ethereum_block_hash, detail.latest_ethereum_block_number),
      from_str(detail.health)>>

AllPass(checks) == \A i \in 1..Len(checks) : IsOk(checks[i])

\* index of the first check that does not pass
FirstFailing(checks) ==
    CHOOSE i \in 1..Len(checks) :
        ~IsOk(checks[i]) /\ \A j \in 1..(i - 1) : IsOk(checks[j])

\* C6: mapping a row returns a status iff all three pointer pairs pass the
\* validator and the health string is recognised; otherwise the row yields an
\* error, the one of the first failing check in the order chain head, earliest,
\* latest, health.
C6_FirstFailingCheck ==
    call.op = "try_from" /\ Returned
        => LET checks == Checks(call.detail)
           IN  /\ IsOk(result) <=> AllPass(checks)
               /\ ~AllPass(checks)
                     => IsErr(result) /\ result = checks[FirstFailing(checks)]

\* The order of the checks does hold for rows none of whose checks unwinds.
FirstFailingCheckNoPanic ==
    call.op = "try_from" /\ Returned
        => LET checks == Checks(call.detail)
           IN  (\A i \in 1..Len(checks) : ~IsPanic(checks[i]))
                  => /\ IsOk(result) <=> AllPass(checks)
                     /\ ~AllPass(checks)
                           => IsErr(result) /\ result = checks[FirstFailing(checks)]

\* the pointer a (hash, number) pair of a row stands for in a status
PointerMatches(ptr, hash, number) ==
    IF IsNone(hash) THEN ptr = None
    ELSE /\ IsSome(ptr)
         /\ Unwrap(ptr).hash = Unwrap(hash)
         /\ IsSome(number)
         /\ Unwrap(ptr).number = IntegerPart(Unwrap(number))

\* the fields of a status against the row it was mapped from
StatusOfRow(info, detail) ==
    /\ info.subgraph = detail.id
    /\ info.synced = detail.synced
    /\ info.node = detail.node_id
    /\ info.fatal_error = None
    /\ info.non_fatal_errors = <<>>
    /\ Len(info.chains) = 1
    /\ info.chains[1].network = detail.network
    /\ PointerMatches(info.chains[1].chain_head_block,
                      detail.ethereum_head_block_hash, detail.ethereum_head_block_number)
    /\ PointerMatches(info.chains[1].earliest_block,
                      detail.earliest_ethereum_block_hash,
                      detail.earliest_ethereum_block_number)
    /\ PointerMatches(info.chains[1].latest_block,
                      detail.latest_ethereum_block_hash, detail.latest_ethereum_block_number)

\* C8: every status produced by mapping a row has the row's id, synced flag
\* and node, no fatal error and no non-fatal errors whatever the row holds, and
\* exactly one chain with the row's network and the validated pointers of the
\* row's chain head, earliest and latest fields.
C8_StatusFields ==
    call.op = "try_from" /\ Returned /\ IsOk(result)
        => StatusOfRow(result.value, call.detail)

\* a row with errors recorded, chain head set, earliest and latest null, mapped
\* to a status with a chain-head pointer and no other pointer
C8_Witness ==
    /\ call.op = "try_from" /\ Returned /\ IsOk(result)
    /\ call.detail.health = "healthy" /\ call.detail.synced
    /\ call.detail.fatal_error # None /\ call.detail.non_fatal_errors # <<>>
    /\ IsSome(call.detail.ethereum_head_block_hash)
    /\ IsNone(call.detail.earliest_ethereum_block_hash)
    /\ IsNone(call.detail.latest_ethereum_block_hash)
    /\ IsSome(result.value.chains[1].chain_head_block)
    /\ result.value.chains[1].earliest_block = None
    /\ result.value.chains[1].latest_block = None

\* C10: mapping is total: for every row, also one whose present hash is not
\* H256Bytes long, the mapper returns a status or a StoreError, and every
\* pointer of a returned status has a hash of exactly H256Bytes bytes.
C10_MapperTotal ==
    call.op = "try_from" /\ Returned
        => /\ IsOk(result) \/ IsErr(result)
           /\ IsOk(result) =>
                 LET chain == result.value.chains[1]
                 IN  \A ptr \in {chain.chain_head_block, chain.earliest_block,
                                 chain.latest_block} :
                        IsSome(ptr) => Len(Unwrap(ptr).hash) = H256Bytes

\* The mapper unwinds exactly on the rows where a pair with a hash of another
\* length is reached before any check fails.
MapperPanicsOnlyOnBadLength ==
    call.op = "try_from" /\ Returned /\ IsPanic(result)
        => \E h \in {call.detail.ethereum_head_block_hash,
                     call.detail.earliest_ethereum_block_hash,
                     call.detail.latest_ethereum_block_hash} :
              IsSome(h) /\ Len(Unwrap(h)) # H256Bytes

-----------------------------------------------------------------------------
(* The queries.  conn is "up" when the connection answers the query and    *)
(* "down" when the read fails.                                             *)

Range(seq) == {seq[i] : i \in 1..Len(seq)}

RECURSIVE InsertByCreatedAt(_, _)
\* v inserted into the sorted sequence sorted, after the rows not created later
InsertByCreatedAt(v, sorted) ==
    IF sorted = <<>> THEN <<v>>
    ELSE IF Head(sorted).created_at <= v.created_at
         THEN <<Head(sorted)>> \o InsertByCreatedAt(v, Tail(sorted))
    ELSE <<v>> \o sorted

RECURSIVE OrderByCreatedAtAsc(_)
\* ORDER BY created_at ASC
OrderByCreatedAtAsc(rows) ==
    IF rows = <<>> THEN <<>>
    ELSE InsertByCreatedAt(rows[Len(rows)],
                           OrderByCreatedAtAsc(SubSeq(rows, 1, Len(rows) - 1)))

\* the first row that does not map, else the statuses of all the rows:
\* .into_iter().map(|detail| status::Info::try_from(detail)).collect()
RECURSIVE Collect(_)
Collect(details) ==
    IF details = <<>> THEN Ok(<<>>)
    ELSE LET first == try_from(Head(details))
         IN  IF ~IsOk(first) THEN first
             ELSE LET rest == Collect(Tail(details))
                  IN  IF ~IsOk(rest) THEN rest
                      ELSE Ok(<<first.value>> \o rest.value)

\* deployments_for_subgraph without its order_by
deployments_for_subgraph_unordered(conn, name) ==
    IF conn = "down" THEN DatabaseError
    ELSE LET joined == SelectSeq(subgraph_version_table,
                           LAMBDA v : \E s \in subgraph : v.subgraph = s.id /\ s.name = name)
         IN  Ok([i \in 1..Len(joined) |-> joined[i].deployment])

deployments_for_subgraph(conn, name) ==
    IF conn = "down" THEN DatabaseError
    ELSE LET joined == SelectSeq(subgraph_version_table,
                           LAMBDA v : \E s \in subgraph : v.subgraph = s.id /\ s.name = name)
             ordered == OrderByCreatedAtAsc(joined)
         IN  Ok([i \in 1..Len(ordered) |-> ordered[i].deployment])

\* deployment_statuses filtering by the list also when the list is empty
deployment_statuses_no_all(conn, deployments) ==
    IF conn = "down" THEN DatabaseError
    ELSE Collect(SelectSeq(subgraph_deployment_detail,
                           LAMBDA d : d.id \in Range(deployments)))

deployment_statuses(conn, deployments) ==
    IF conn = "down" THEN DatabaseError
    ELSE IF deployments = <<>> THEN Collect(subgraph_deployment_detail)
    ELSE Collect(SelectSeq(subgraph_deployment_detail,
                           LAMBDA d : d.id \in Range(deployments)))

\* subgraph_version joining on current_version whatever use_current is
subgraph_version_current_only(conn, name, use_current) ==
    IF conn = "down" THEN DatabaseError
    ELSE LET joined == SelectSeq(subgraph_version_table,
                           LAMBDA v : \E s \in subgraph :
                               s.current_version = Some(v.id) /\ s.name = name)
         IN  Ok(IF joined = <<>> THEN None ELSE Some(joined[1].deployment))

subgraph_version(conn, name, use_current) ==
    IF conn = "down" THEN DatabaseError
    ELSE LET joined ==
                 IF use_current
                 THEN SelectSeq(subgraph_version_table,
                          LAMBDA v : \E s \in subgraph :
                              s.current_version = Some(v.id) /\ s.name = name)
                 ELSE SelectSeq(subgraph_version_table,
                          LAMBDA v : \E s \in subgraph :
                              s.pending_version = Some(v.id) /\ s.name = name)
             deployment == IF joined = <<>> THEN None ELSE Some(Some(joined[1].deployment))
         IN  Ok(IF deployment = None THEN None ELSE Unwrap(deployment))

-----------------------------------------------------------------------------
(* Contents of the store                                                   *)

Conns == {"up", "down"}

SubgraphIds == {"s1", "s2"}

SubgraphNames == {"a", "b"}

VersionIds == {"v1", "v2"}

\* names asked for: two that rows may carry and one that no row carries
QueryNames == SubgraphNames \cup {"zz"}

OptVersionIds == {None} \cup {Some(v) : v \in VersionIds}

SubgraphRow(id, name, current_version, pending_version) ==
    [id |-> id, name |-> name,
     current_version |-> current_version, pending_version |-> pending_version]

VersionRow(id, subgraph_id, deployment, created_at) ==
    [id |-> id, subgraph |-> subgraph_id, deployment |-> deployment,
     created_at |-> created_at]

SubgraphRows ==
    {SubgraphRow(id, n, c, p) :
        id \in SubgraphIds, n \in SubgraphNames, c \in OptVersionIds, p \in OptVersionIds}

\* the rows a second subgraph of a table is drawn from
SecondSubgraphRows ==
    {r \in SubgraphRows :
        r.id = "s2" /\ r.current_version = None /\ r.pending_version # Some("v1")}

\* subgraph tables: ids are unique and names are unique
SubgraphTables ==
    {{}} \cup {{a} : a \in SubgraphRows}
         \cup {t \in {{a, b} : a \in {r \in SubgraphRows : r.id = "s1"},
                               b \in SecondSubgraphRows} :
                  \A a \in t, b \in t : a # b => a.name # b.name}

VersionRows ==
    {VersionRow(id, s, d, t) :
        id \in VersionIds, s \in SubgraphIds, d \in DeploymentIds, t \in 1..MaxCreatedAt}

\* subgraph_version tables: ids are unique
VersionTables ==
    {<<>>} \cup {<<a>> : a \in VersionRows}
           \cup {t \in {<<a, b>> : a \in VersionRows, b \in VersionRows} :
                    t[1].id # t[2].id}
           \cup {<<VersionRow("v1", "s1", d[1], t[1]), VersionRow("v2", "s1", d[2], t[2]),
                   VersionRow("v3", "s1", d[3], t[3])>> :
                    d \in [1..3 -> DeploymentIds], t \in [1..3 -> 1..MaxCreatedAt]}

ViewIds == {"Qm1", "Qm2", "Qm3"}

\* a row that maps to a status: chain head set, earliest and latest null
HealthyRow(id) ==
    Detail(id, "healthy", TRUE, Some("boom"), <<"warn">>,
           NoPointer, NoPointer, GoodPointer, "mainnet", Some("node_1"))

\* a row that maps to a status: no chain head, latest at u64::MAX, unassigned
FailedRow(id) ==
    Detail(id, "failed", FALSE, None, <<>>,
           NoPointer, MaxPointer, NoPointer, "mainnet", None)

\* a row whose chain head has a hash and no number
HalfPointerRow(id) ==
    Detail(id, "healthy", TRUE, None, <<>>,
           NoPointer, NoPointer, HashOnly, "mainnet", None)

\* a row whose health is not one of the recognised strings
BadHealthRow(id) ==
    Detail(id, "Healthy", TRUE, None, <<>>,
           NoPointer, GoodPointer, GoodPointer, "mainnet", None)

\* a row whose chain-head hash is one byte short
ShortHashRow(id) ==
    Detail(id, "healthy", TRUE, None, <<>>,
           NoPointer, NoPointer, ShortHash, "mainnet", None)

\* a row whose chain head fails before its short latest hash is reached
HalfThenShortRow(id) ==
    Detail(id, "healthy", TRUE, None, <<>>,
           NoPointer, ShortHash, NumberOnly, "mainnet", None)

ViewRows(id) ==
    {HealthyRow(id), FailedRow(id), HalfPointerRow(id), BadHealthRow(id),
     ShortHashRow(id), HalfThenShortRow(id)}

AllViewRows == UNION {ViewRows(id) : id \in ViewIds}

\* contents of the view: at most one row per deployment id, in any order
ViewTables ==
    {<<>>} \cup {<<a>> : a \in AllViewRows}
           \cup {t \in {<<a, b>> : a \in AllViewRows, b \in AllViewRows} :
                    t[1].id # t[2].id}
           \cup {t \in {<<a, b, c>> : a \in ViewRows("Qm1") \cup ViewRows("Qm2"),
                                      b \in ViewRows("Qm2") \cup ViewRows("Qm3"),
                                      c \in ViewRows("Qm3") \cup ViewRows("Qm1")} :
                    Cardinality({t[1].id, t[2].id, t[3].id}) = 3}

\* the id lists deployment_statuses is called with; "Qm9" is in no view
IdLists ==
    {<<>>, <<"Qm1">>, <<"Qm2">>, <<"Qm2", "Qm1">>, <<"Qm3", "Qm9">>, <<"Qm9">>}

-----------------------------------------------------------------------------
(* Specification of the name queries: subgraph_version and                 *)
(* deployments_for_subgraph over the subgraph and subgraph_version tables  *)

InitNames ==
    /\ subgraph \in SubgraphTables
    /\ subgraph_version_table \in VersionTables
    /\ subgraph_deployment_detail = <<>>
    /\ call = NoCall
    /\ result = NoResult

DeploymentsForSubgraph ==
    \E conn \in Conns, name \in QueryNames :
        /\ call' = [op |-> "deployments_for_subgraph", conn |-> conn, name |-> name]
        /\ result' = deployments_for_subgraph(conn, name)
        /\ UNCHANGED tables

SubgraphVersion ==
    \E conn \in Conns, name \in QueryNames, use_current \in BOOLEAN :
        /\ call' = [op |-> "subgraph_version", conn |-> conn, name |-> name,
                    use_current |-> use_current]
        /\ result' = subgraph_version(conn, name, use_current)
        /\ UNCHANGED tables

NextNames == DeploymentsForSubgraph \/ SubgraphVersion

SpecNames == InitNames /\ [][NextNames]_vars

-----------------------------------------------------------------------------
(* Specification of the three public operations over a store               *)

\* two subgraphs, "a" with a current and no pending version, "b" with neither
SampleSubgraphs ==
    {SubgraphRow("s1", "a", Some("v1"), None), SubgraphRow("s2", "b", None, None)}

\* two versions of subgraph "a", the later one delivered first
SampleVersions ==
    <<VersionRow("v2", "s1", "Qm2", MaxCreatedAt), VersionRow("v1", "s1", "Qm1", 1)>>

Init ==
    /\ subgraph \in {{}, SampleSubgraphs}
    /\ subgraph_version_table = SampleVersions
    /\ subgraph_deployment_detail \in ViewTables
    /\ call = NoCall
    /\ result = NoResult

\* deployment_statuses dropping from the view the rows that do not map
DeploymentStatusesPruning ==
    \E conn \in Conns, deployments \in IdLists :
        /\ call' = [op |-> "deployment_statuses", conn |-> conn,
                    deployments |-> deployments]
        /\ result' = deployment_statuses(conn, deployments)
        /\ subgraph_deployment_detail' =
              SelectSeq(subgraph_deployment_detail, LAMBDA d : IsOk(try_from(d)))
        /\ UNCHANGED <<subgraph, subgraph_version_table>>

DeploymentStatuses ==
    \E conn \in Conns, deployments \in IdLists :
        /\ call' = [op |-> "deployment_statuses", conn |-> conn,
                    deployments |-> deployments]
        /\ result' = deployment_statuses(conn, deployments)
        /\ UNCHANGED tables

Next == DeploymentsForSubgraph \/ DeploymentStatuses \/ SubgraphVersion

Spec == Init /\ [][Next]_vars

-----------------------------------------------------------------------------
(* Properties of deployment_statuses                                       *)

\* every row of the view maps to a status
AllRowsMap ==
    \A i \in 1..Len(subgraph_deployment_detail) :
        IsOk(try_from(subgraph_deployment_detail[i]))

\* the rows of the view a call with the list ids is about
Selected(ids) ==
    IF ids = <<>> THEN Range(subgraph_deployment_detail)
    ELSE {d \in Range(subgraph_deployment_detail) : d.id \in Range(ids)}

\* C3: when all rows of the view map, deployment_statuses with an empty list
\* returns one status for every row of the view, and with a non-empty list
\* exactly the statuses of the rows whose id is in the list: one record for an
\* id the view holds, none and no error for an id it does not hold.
C3_StatusesSelect ==
    call.op = "deployment_statuses" /\ call.conn = "up" /\ AllRowsMap
        => /\ IsOk(result)
           /\ LET statuses == result.value
                  rows == Selected(call.deployments)
              IN  /\ Len(statuses) = Cardinality(rows)
                  /\ {statuses[i].subgraph : i \in 1..Len(statuses)} = {d.id : d \in rows}
                  /\ \A i \in 1..Len(statuses) :
                        \E d \in rows :
                           /\ StatusOfRow(statuses[i], d)
                           /\ Ok(statuses[i].health) = from_str(d.health)
                  /\ call.deployments = <<>> =>
                        Len(statuses) = Len(subgraph_deployment_detail)
                  /\ \A id \in Range(call.deployments) :
                        Cardinality({i \in 1..Len(statuses) : statuses[i].subgraph = id})
                           = IF \E d \in Range(subgraph_deployment_detail) : d.id = id
                             THEN 1 ELSE 0

\* a list of one id the view holds and one it does not, asked of a view of
\* three rows: one record comes back
C3_Witness ==
    /\ call.op = "deployment_statuses" /\ call.conn = "up" /\ AllRowsMap
    /\ call.deployments = <<"Qm3", "Qm9">>
    /\ Len(subgraph_deployment_detail) = 3
    /\ IsOk(result) /\ Len(result.value) = 1
    /\ result.value[1].subgraph = "Qm3"

\* the rows a call loads, in load order
Loaded(ids) ==
    IF ids = <<>> THEN subgraph_deployment_detail
    ELSE SelectSeq(subgraph_deployment_detail, LAMBDA d : d.id \in Range(ids))

\* index of the first row that does not map
FirstFailingRow(mapped) ==
    CHOOSE i \in 1..Len(mapped) :
        ~IsOk(mapped[i]) /\ \A j \in 1..(i - 1) : IsOk(mapped[j])

\* C7: the first row in load order that fails mapping aborts the batch: the
\* call returns that row's error and no statuses; it returns Ok only when every
\* loaded row maps, with one status per row in load order; a failed load is
\* returned as an error.
C7_FirstErrorAborts ==
    call.op = "deployment_statuses" /\ Returned
        => IF call.conn = "down" THEN IsErr(result)
           ELSE LET rows == Loaded(call.deployments)
                    mapped == [i \in 1..Len(rows) |-> try_from(rows[i])]
                IN  IF \A i \in 1..Len(rows) : IsOk(mapped[i])
                    THEN result = Ok([i \in 1..Len(rows) |-> mapped[i].value])
                    ELSE IsErr(result) /\ result = mapped[FirstFailingRow(mapped)]

\* The batch does end with the outcome of the first row that does not map,
\* which is that row's error unless mapping that row unwinds.
FirstFailingRowDecides ==
    call.op = "deployment_statuses" /\ Returned /\ call.conn = "up"
        => LET rows == Loaded(call.deployments)
               mapped == [i \in 1..Len(rows) |-> try_from(rows[i])]
           IN  IF \A i \in 1..Len(rows) : IsOk(mapped[i])
               THEN result = Ok([i \in 1..Len(rows) |-> mapped[i].value])
               ELSE result = mapped[FirstFailingRow(mapped)]

-----------------------------------------------------------------------------
(* Properties of the name queries                                          *)

\* the version pointer of a subgraph row that use_current selects
SelectedPointer(s, use_current) ==
    IF use_current THEN s.current_version ELSE s.pending_version

\* C4: subgraph_version(name, use_current) returns None when no subgraph is
\* named name, None when the selected pointer (current_version if use_current,
\* else pending_version) is unset or points at no version row, and otherwise
\* the deployment of the version the selected pointer refers to; the other
\* pointer never decides the result.
C4_SubgraphVersion ==
    call.op = "subgraph_version" /\ call.conn = "up"
        => LET named == {s \in subgraph : s.name = call.name}
           IN  /\ named = {} => result = Ok(None)
               /\ \A s \in named :
                     LET ptr == SelectedPointer(s, call.use_current)
                         target == {v \in Range(subgraph_version_table) : Some(v.id) = ptr}
                     IN  /\ (ptr = None \/ target = {}) => result = Ok(None)
                         /\ \A v \in target : result = Ok(Some(v.deployment))

\* asked for the pending version of a subgraph that has a current version and
\* no pending one, the query returns None
C4_Witness ==
    /\ call.op = "subgraph_version" /\ call.conn = "up" /\ ~call.use_current
    /\ \E s \in subgraph :
          /\ s.name = call.name
          /\ s.pending_version = None
          /\ \E v \in Range(subgraph_version_table) : s.current_version = Some(v.id)
    /\ result = Ok(None)

\* positions of the version rows that belong to a subgraph named name
VersionsOf(name) ==
    {i \in 1..Len(subgraph_version_table) :
        \E s \in subgraph : s.id = subgraph_version_table[i].subgraph /\ s.name = name}

\* C5: deployments_for_subgraph(name) returns the deployment of every version
\* row of a subgraph named name, one entry per row with duplicates kept, in
\* non-decreasing order of created_at, and the empty sequence when there is no
\* such row.
C5_DeploymentsOrdered ==
    call.op = "deployments_for_subgraph" /\ call.conn = "up"
        => /\ IsOk(result)
           /\ LET rows == VersionsOf(call.name)
                  n == Cardinality(rows)
              IN  /\ Len(result.value) = n
                  /\ \E f \in [1..n -> rows] :
                        /\ \A i \in 1..n, j \in 1..n : i # j => f[i] # f[j]
                        /\ \A i \in 1..n :
                              result.value[i] = subgraph_version_table[f[i]].deployment
                        /\ \A i \in 1..n, j \in 1..n :
                              i < j => subgraph_version_table[f[i]].created_at
                                          <= subgraph_version_table[f[j]].created_at

\* two versions of one subgraph, the later one delivered first by the store,
\* listed with the earlier one first
C5_Witness ==
    /\ call.op = "deployments_for_subgraph" /\ call.conn = "up"
    /\ VersionsOf(call.name) = {1, 2}
    /\ subgraph_version_table[1].created_at > subgraph_version_table[2].created_at
    /\ subgraph_version_table[1].deployment # subgraph_version_table[2].deployment
    /\ IsOk(result)
    /\ result.value = <<subgraph_version_table[2].deployment,
                        subgraph_version_table[1].deployment>>

-----------------------------------------------------------------------------
(* Frame of the public operations                                          *)

====
